---- MODULE Spec2Model ----
(***************************************************************************)
(* Model of tools/tiny-test-fw/IDF/IDFDUT.py: the IDFDUT serial session    *)
(* with its esptool methods (start_app, reset, erase_partition,            *)
(* dump_flush, each wrapped by _tool_method) and the class method          *)
(* list_available_ports.                                                   *)
(*                                                                         *)
(* The file runs under Python 2 and Python 3; the two interpreters differ  *)
(* in the scope of an "except ... as" name, in str/bytes and in the type   *)
(* of os.getenv's result, so the interpreter is part of the state.         *)
(*                                                                         *)
(* A text is a sequence of one-character strings.  A byte above 0x7F is    *)
(* written as a token "xHH", a non-ASCII code point as "U+HHHH".           *)
(***************************************************************************)
EXTENDS Integers, Sequences, FiniteSets, TLC

VARIABLES
    pyVersion,        \* 2 or 3: the interpreter running the harness
    partition_table,  \* self.partition_table: name -> [offset, size]
    download_config,  \* self.download_config: list of esptool arguments
    portOpen,         \* the session holds its serial connection
    pc,               \* "idle", or the method blocked in a tool invocation
    erase_nvs,        \* start_app's argument for the call in progress
    dl_config,        \* start_app's local download_config
    baudIdx,          \* start_app's position in retry_baud_rates
    error,            \* start_app's local variable error
    kwargs,           \* the keyword arguments of the current (or last) call
    files,            \* files on disk written by the session: name -> bytes
    invocations,      \* tool invocations of the current (or last) call
    lastCall,         \* the method that was called last
    raised,           \* the exception the last call raised, NoException if none
    ports,            \* list_ports.comports() devices
    espport,          \* bytes of $ESPPORT in the environment, None if unset
    platform,         \* sys.platform
    result            \* what list_available_ports returned or raised

vars == <<pyVersion, partition_table, download_config, portOpen, pc, erase_nvs,
          dl_config, baudIdx, error, kwargs, files, invocations, lastCall,
          raised, ports, espport, platform, result>>

sessionVars == <<partition_table, download_config, portOpen, pc, erase_nvs,
                 dl_config, baudIdx, error, kwargs, files, invocations,
                 lastCall, raised>>

portVars == <<ports, espport, platform, result>>

-----------------------------------------------------------------------------
(* Bounds *)

MaxPartitionSize == 2   \* partition sizes range over 0..MaxPartitionSize
MaxPorts == 3           \* longest enumerated port list

-----------------------------------------------------------------------------
(* Exceptions *)

Exc(type, baud) == [type |-> type, baud |-> baud]
NoException == Exc("none", "none")
\* the value of a local name that is not bound
Unbound == Exc("<unbound>", "none")

-----------------------------------------------------------------------------
(* The serial connection of DUT.SerialDUT (not part of this file) *)

\* self.close(): the session releases its serial connection
Close(isOpen) == FALSE

\* self.open(): the session acquires its serial connection
Open(isOpen) == TRUE

-----------------------------------------------------------------------------
(* _tool_method *)

\* a handler that does not close the port before the tool method
HandlerPreNoClose(isOpen) == isOpen

\* the port after the handler's first statement, self.close()
HandlerPre(isOpen) == Close(isOpen)

\* the port when the handler is left: self.open() runs only when
\* func returned; an exception of func leaves the handler at once
HandlerPost(isOpen, exc) == IF exc = NoException THEN Open(isOpen) ELSE isOpen

-----------------------------------------------------------------------------
(* Data of the application: app.process_app_info() *)

PartitionNames == {"nvs", "phy_init"}

\* partition names a caller may pass; "ota_0" is in no modelled table
PartitionArgs == PartitionNames \cup {"ota_0"}

PartitionEntries == [offset : {"0x9000"}, size : 0..MaxPartitionSize]

PartitionTables == UNION {[D -> PartitionEntries] : D \in SUBSET PartitionNames}

DownloadConfigs ==
    { <<"0x1000", "bootloader.bin">>,
      <<"0x1000", "bootloader.bin", "0x10000", "app.bin">> }

EmptyFiles == [n \in {} |-> <<>>]

\* a call without keyword arguments
NoKwargs == [k \in {} |-> 0]

WriteFile(fs, name, content) == [n \in DOMAIN fs \cup {name} |->
                                    IF n = name THEN content ELSE fs[n]]

DeleteFile(fs, name) == [n \in DOMAIN fs \ {name} |-> fs[n]]

\* outcomes of subprocess.check_output: exit status 0, a non-zero exit
\* status, or the interpreter could not be started
ToolOutcomes == {"ok", "CalledProcessError", "OSError"}

Invocation(args, outcome) == [args |-> args, outcome |-> outcome]

\* the invocation in progress has ended with outcome
Ended(inv, outcome) ==
    [inv EXCEPT ![Len(inv)] = Invocation(inv[Len(inv)].args, outcome)]

-----------------------------------------------------------------------------
(* start_app *)

ERASE_NVS == TRUE

retry_baud_rates == <<"921600", "115200">>

NvsTempName == "nvs_file.name"

\* a blank image of zero bytes instead of 0xFF bytes
NvsImageZero(size) == [i \in 1..size |-> 0]

\* b'\xff' * size
NvsImage(size) == [i \in 1..size |-> 255]

\* the local download_config of start_app
StartAppConfig(dc, pt, erase) ==
    IF erase THEN dc \o <<pt["nvs"].offset, NvsTempName>> ELSE dc

FlashArgs(baud_rate, dc) ==
    <<"python", "esptool.py", "--port", "self.port", "--baud", baud_rate>> \o dc

\* a retry loop without its break statement
LoopBreaksNever(outcome) == FALSE

\* check_output returned, so the break statement ends the loop
LoopBreaks(outcome) == outcome = "ok"

\* the local name error after "except CalledProcessError as error: continue":
\* Python 2 leaves it bound to the exception, Python 3 deletes the name
\* when the except clause is left
BindExcept(py, exc) == IF py = 2 THEN exc ELSE Unbound

\* raise error
RaiseName(value) ==
    IF value = Unbound THEN Exc("UnboundLocalError", "none") ELSE value

\* finally: if erase_nvs: nvs_file.close()   (closing deletes the file)
StartAppFinally(fs, erase) == IF erase THEN DeleteFile(fs, NvsTempName) ELSE fs

\* the handler is left: locals are gone, the outcome is the caller's
Return(method, isOpen, exc, inv, fs) ==
    /\ pc' = "idle"
    /\ portOpen' = HandlerPost(isOpen, exc)
    /\ raised' = exc
    /\ lastCall' = method
    /\ invocations' = inv
    /\ files' = fs
    /\ erase_nvs' = FALSE
    /\ dl_config' = <<>>
    /\ baudIdx' = 0
    /\ error' = Unbound

StartApp(erase) ==
    /\ pc = "idle"
    /\ kwargs' = NoKwargs
    /\ UNCHANGED <<pyVersion, partition_table, download_config, portVars>>
    /\ IF erase /\ "nvs" \notin DOMAIN partition_table
       THEN Return("start_app", HandlerPre(portOpen), Exc("KeyError", "none"),
                   <<>>, files)
       ELSE LET dc == StartAppConfig(download_config, partition_table, erase)
            IN /\ pc' = "start_app"
               /\ portOpen' = HandlerPre(portOpen)
               /\ erase_nvs' = erase
               /\ dl_config' = dc
               /\ files' = IF erase
                           THEN WriteFile(files, NvsTempName,
                                          NvsImage(partition_table["nvs"].size))
                           ELSE files
               /\ baudIdx' = 1
               /\ error' = Exc("IDFToolError", "none")
               /\ invocations' =
                     <<Invocation(FlashArgs(retry_baud_rates[1], dc), "running")>>
               /\ lastCall' = "start_app"
               /\ raised' = NoException

\* the flasher started for retry_baud_rates[baudIdx] ends
FlashAttemptDone(outcome) ==
    /\ pc = "start_app"
    /\ UNCHANGED <<pyVersion, partition_table, download_config, kwargs, portVars>>
    /\ LET inv == Ended(invocations, outcome)
           baud_rate == retry_baud_rates[baudIdx]
           fs == StartAppFinally(files, erase_nvs)
       IN IF outcome = "OSError"
          THEN Return("start_app", portOpen, Exc("OSError", baud_rate), inv, fs)
          ELSE IF LoopBreaks(outcome)
          THEN Return("start_app", portOpen, NoException, inv, fs)
          ELSE LET err == IF outcome = "CalledProcessError"
                          THEN BindExcept(pyVersion,
                                          Exc("CalledProcessError", baud_rate))
                          ELSE error
               IN IF baudIdx < Len(retry_baud_rates)
                  THEN /\ baudIdx' = baudIdx + 1
                       /\ error' = err
                       /\ invocations' = Append(inv,
                             Invocation(FlashArgs(retry_baud_rates[baudIdx + 1],
                                                  dl_config), "running"))
                       /\ UNCHANGED <<pc, portOpen, erase_nvs, dl_config, files,
                                      lastCall, raised>>
                  ELSE Return("start_app", portOpen, RaiseName(err), inv, fs)

-----------------------------------------------------------------------------
(* reset *)

ResetArgs == <<"python", "esptool.py", "--port", "self.port", "run">>

Reset ==
    /\ pc = "idle"
    /\ pc' = "reset"
    /\ portOpen' = HandlerPre(portOpen)
    /\ invocations' = <<Invocation(ResetArgs, "running")>>
    /\ lastCall' = "reset"
    /\ raised' = NoException
    /\ kwargs' = NoKwargs
    /\ UNCHANGED <<pyVersion, partition_table, download_config, erase_nvs,
                   dl_config, baudIdx, error, files, portVars>>

ResetDone(outcome) ==
    /\ pc = "reset"
    /\ Return("reset", portOpen,
              IF outcome = "ok" THEN NoException ELSE Exc(outcome, "none"),
              Ended(invocations, outcome), files)
    /\ UNCHANGED <<pyVersion, partition_table, download_config, kwargs, portVars>>

-----------------------------------------------------------------------------
(* erase_partition *)

EraseTmpName == ".erase_partition.tmp"

\* f.write(chr(0xFF) * size) on a file opened "wb": Python 2 writes the
\* bytes, Python 3 refuses a str with TypeError and the file stays empty
EraseWrite(py, size) ==
    IF py = 2
    THEN [exc |-> NoException, content |-> [i \in 1..size |-> 255]]
    ELSE [exc |-> Exc("TypeError", "none"), content |-> <<>>]

ErasePartition(partition) ==
    /\ pc = "idle"
    /\ kwargs' = NoKwargs
    /\ UNCHANGED <<pyVersion, partition_table, download_config, portVars>>
    /\ IF partition \notin DOMAIN partition_table
       THEN Return("erase_partition", HandlerPre(portOpen),
                   Exc("KeyError", "none"), <<>>, files)
       ELSE LET w == EraseWrite(pyVersion, partition_table[partition].size)
            IN Return("erase_partition", HandlerPre(portOpen), w.exc, <<>>,
                      WriteFile(files, EraseTmpName, w.content))

-----------------------------------------------------------------------------
(* dump_flush *)

\* output_file arguments: an absolute and a relative path
OutputFiles == { <<"abs", "/tmp/dump.bin">>, <<"rel", "dump.bin">> }

\* os.path.isabs(output_file)
IsAbs(output_file) == output_file[1] = "abs"

\* os.path.relpath(output_file, self.app.get_log_folder())
RelPath(output_file) == <<"rel to log folder", output_file[2]>>

Restrict(f, D) == [k \in D |-> f[k]]

\* keyword arguments of a call: any subset of partition, address and size
DumpKwargs ==
    { Restrict(full, D) :
        full \in [partition : PartitionArgs, address : {"0x1000"}, size : {4096}],
        D \in SUBSET {"partition", "address", "size"} }

DumpRange(exc, address, size) == [exc |-> exc, address |-> address, size |-> size]

\* dump_flush accepting address or size alone
DumpTargetEitherOfRange(kw, pt) ==
    IF "partition" \in DOMAIN kw
    THEN IF kw["partition"] \in DOMAIN pt
         THEN DumpRange(NoException, pt[kw["partition"]].offset,
                        pt[kw["partition"]].size)
         ELSE DumpRange(Exc("KeyError", "none"), "none", 0)
    ELSE IF "address" \in DOMAIN kw \/ "size" \in DOMAIN kw
    THEN DumpRange(NoException,
                   IF "address" \in DOMAIN kw THEN kw["address"] ELSE "none",
                   IF "size" \in DOMAIN kw THEN kw["size"] ELSE 0)
    ELSE DumpRange(Exc("IDFToolError", "none"), "none", 0)

\* the range to read: the partition's when partition is given, else
\* address and size when both are given, else IDFToolError
DumpTarget(kw, pt) ==
    IF "partition" \in DOMAIN kw
    THEN IF kw["partition"] \in DOMAIN pt
         THEN DumpRange(NoException, pt[kw["partition"]].offset,
                        pt[kw["partition"]].size)
         ELSE DumpRange(Exc("KeyError", "none"), "none", 0)
    ELSE IF "address" \in DOMAIN kw /\ "size" \in DOMAIN kw
    THEN DumpRange(NoException, kw["address"], kw["size"])
    ELSE DumpRange(Exc("IDFToolError", "none"), "none", 0)

DumpArgs(address, size, output_file) ==
    <<"python", "esptool.py", "--port", "self.port", "--baud", "921600",
      "--before", "default_reset", "--after", "hard_reset", "read_flash",
      address, size, output_file>>

DumpFlush(output_file, kw) ==
    /\ pc = "idle"
    /\ kwargs' = kw
    /\ UNCHANGED <<pyVersion, partition_table, download_config, portVars>>
    /\ LET out == IF IsAbs(output_file) THEN output_file ELSE RelPath(output_file)
           target == DumpTarget(kw, partition_table)
       IN IF target.exc # NoException
          THEN Return("dump_flush", HandlerPre(portOpen), target.exc, <<>>, files)
          ELSE /\ pc' = "dump_flush"
               /\ portOpen' = HandlerPre(portOpen)
               /\ invocations' =
                     <<Invocation(DumpArgs(target.address, target.size, out),
                                  "running")>>
               /\ lastCall' = "dump_flush"
               /\ raised' = NoException
               /\ UNCHANGED <<erase_nvs, dl_config, baudIdx, error, files>>

DumpFlushDone(outcome) ==
    /\ pc = "dump_flush"
    /\ Return("dump_flush", portOpen,
              IF outcome = "ok" THEN NoException ELSE Exc(outcome, "none"),
              Ended(invocations, outcome), files)
    /\ UNCHANGED <<pyVersion, partition_table, download_config, kwargs, portVars>>

-----------------------------------------------------------------------------
(* Texts *)

RECURSIVE Replace(_, _, _)
RECURSIVE Utf8Decode(_)
RECURSIVE FsDecode(_)

\* re.search of a literal, and the "in" operator of str
Contains(s, pat) ==
    \E i \in 1..(Len(s) - Len(pat) + 1) : SubSeq(s, i, i + Len(pat) - 1) = pat

\* str.replace: every occurrence, left to right, without overlap
Replace(s, old, new) ==
    IF Len(s) < Len(old) THEN s
    ELSE IF SubSeq(s, 1, Len(old)) = old
    THEN new \o Replace(SubSeq(s, Len(old) + 1, Len(s)), old, new)
    ELSE <<Head(s)>> \o Replace(Tail(s), old, new)

\* the bytes above 0x7F of the model: a lead byte of a two-byte sequence,
\* a continuation byte, and a byte that no UTF-8 text holds
NonAscii == {"xC3", "xA9", "xFF"}

IsAscii(b) == b \notin NonAscii

DecodeError == <<"<UnicodeDecodeError>">>

\* bytes.decode('utf8') of Python 2: the code points, or DecodeError
Utf8Decode(bs) ==
    IF bs = <<>> THEN <<>>
    ELSE IF IsAscii(Head(bs))
    THEN LET rest == Utf8Decode(Tail(bs))
         IN IF rest = DecodeError THEN DecodeError ELSE <<Head(bs)>> \o rest
    ELSE IF Len(bs) >= 2 /\ bs[1] = "xC3" /\ bs[2] = "xA9"
    THEN LET rest == Utf8Decode(SubSeq(bs, 3, Len(bs)))
         IN IF rest = DecodeError THEN DecodeError ELSE <<"U+00E9">> \o rest
    ELSE DecodeError

\* how Python 3 decodes the environment (utf-8, surrogateescape): a byte
\* that is not part of a UTF-8 sequence becomes a lone surrogate
FsDecode(bs) ==
    IF bs = <<>> THEN <<>>
    ELSE IF IsAscii(Head(bs)) THEN <<Head(bs)>> \o FsDecode(Tail(bs))
    ELSE IF Len(bs) >= 2 /\ bs[1] = "xC3" /\ bs[2] = "xA9"
    THEN <<"U+00E9">> \o FsDecode(SubSeq(bs, 3, Len(bs)))
    ELSE <<"U+DC" \o Head(bs)>> \o FsDecode(Tail(bs))

Dev == <<"/", "d", "e", "v", "/">>
TtyUSB0 == Dev \o <<"t", "t", "y", "U", "S", "B", "0">>
TtyAMA0 == Dev \o <<"t", "t", "y", "A", "M", "A", "0">>
TtyBluetooth == Dev \o <<"t", "t", "y", ".", "B", "l", "u", "e", "t", "o", "o", "t", "h",
                         "-", "I", "n", "c", "o", "m", "i", "n", "g", "-",
                         "P", "o", "r", "t">>
CuSLAB == Dev \o <<"c", "u", ".", "S", "L", "A", "B">>
TtySLAB == Dev \o <<"t", "t", "y", ".", "S", "L", "A", "B">>
CuCuX == Dev \o <<"c", "u", ".", "c", "u", ".", "x">>
TtyTtyX == Dev \o <<"t", "t", "y", ".", "t", "t", "y", ".", "x">>
TtyS9 == Dev \o <<"t", "t", "y", "S", "9">>

\* device names the operating system may enumerate
PortPool == {TtyUSB0, TtyAMA0, TtyBluetooth, CuSLAB, TtySLAB, CuCuX}

\* the value of os.getenv for a variable that is not set
None == <<"<None>">>

\* $ESPPORT: unset, empty, a device name, or bytes that name no device
EspportValues ==
    {None, <<>>} \cup PortPool
    \cup {TtyTtyX, TtyS9, Dev \o <<"xC3", "xA9">>, Dev \o <<"xFF">>}

Platforms == {"linux", "darwin", "win32"}

\* lists of distinct devices, at most MaxPorts long
PortLists ==
    { l \in UNION {[1..n -> PortPool] : n \in 0..MaxPorts} :
        \A i, j \in 1..Len(l) : l[i] = l[j] => i = j }

-----------------------------------------------------------------------------
(* list_available_ports *)

\* an invalid-port pattern without its Bluetooth alternative
InvalidPortOnlyAMA(x) == Contains(x, <<"A", "M", "A">>)

\* INVALID_PORT_PATTERN.search(x), the pattern being AMA|Bluetooth
InvalidPort(x) ==
    \/ Contains(x, <<"A", "M", "A">>)
    \/ Contains(x, <<"B", "l", "u", "e", "t", "o", "o", "t", "h">>)

In(x, list) == \E i \in 1..Len(list) : list[i] = x

\* list.remove(x): the first occurrence of x goes
Remove(list, x) ==
    LET i == CHOOSE k \in 1..Len(list) :
                 list[k] = x /\ \A j \in 1..(k - 1) : list[j] # x
    IN SubSeq(list, 1, i - 1) \o SubSeq(list, i + 1, Len(list))

\* os.getenv('ESPPORT'): Python 2 hands out the bytes, Python 3 a str
Getenv(py, env) ==
    IF env = None THEN None ELSE IF py = 2 THEN env ELSE FsDecode(env)

\* type(espport) is type(u'')
IsUnicode(py) == py = 3

\* not espport
NotEspport(value) == value = None \/ value = <<>>

\* the tty.-to-cu. translation without its platform test
AnyPlatform(plat) == TRUE

\* sys.platform == 'darwin'
IsDarwin(plat) == plat = "darwin"

\* the matched hint left where the enumeration has it
PromoteHintKeepPlace(list, port_hint) == list

\* ports.remove(port_hint); return [port_hint] + ports
PromoteHint(list, port_hint) == <<port_hint>> \o Remove(list, port_hint)

Returned(value) == [called |-> TRUE, raised |-> NoException, value |-> value]

NotCalled == [called |-> FALSE, raised |-> NoException, value |-> <<>>]

ListAvailablePorts(list, env, plat, py) ==
    LET value == Getenv(py, env)
    IN IF NotEspport(value)
       THEN Returned(SelectSeq(list, LAMBDA x : ~InvalidPort(x)))
       ELSE LET port_hint == IF IsUnicode(py) THEN value ELSE Utf8Decode(value)
                alt_hint == Replace(port_hint, <<"t", "t", "y", ".">>,
                                    <<"c", "u", ".">>)
            IN IF port_hint = DecodeError
               THEN [called |-> TRUE, raised |-> Exc("UnicodeDecodeError", "none"),
                     value |-> <<>>]
               ELSE IF In(port_hint, list)
               THEN Returned(PromoteHint(list, port_hint))
               ELSE IF /\ IsDarwin(plat)
                       /\ Contains(port_hint, <<"t", "t", "y", ".">>)
                       /\ In(alt_hint, list)
               THEN Returned(PromoteHint(list, alt_hint))
               ELSE Returned(list)

\* a call of IDFDUT.list_available_ports() in the current environment
CallListAvailablePorts ==
    /\ ~result.called
    /\ result' = ListAvailablePorts(ports, espport, platform, pyVersion)
    /\ UNCHANGED <<pyVersion, sessionVars, ports, espport, platform>>

-----------------------------------------------------------------------------
(* Specifications *)

\* a session right after IDFDUT(name, port, log_file, app)
InitSession(tables, configs) ==
    /\ partition_table \in tables
    /\ download_config \in configs
    /\ portOpen = TRUE
    /\ pc = "idle"
    /\ erase_nvs = FALSE
    /\ dl_config = <<>>
    /\ baudIdx = 0
    /\ error = Unbound
    /\ kwargs = NoKwargs
    /\ files = EmptyFiles
    /\ invocations = <<>>
    /\ lastCall = "none"
    /\ raised = NoException

Init ==
    /\ pyVersion \in {2, 3}
    /\ InitSession(PartitionTables, DownloadConfigs)
    /\ ports = <<>>
    /\ espport = None
    /\ platform = "linux"
    /\ result = NotCalled

Next ==
    \/ \E erase \in {ERASE_NVS, FALSE} : StartApp(erase)
    \/ \E outcome \in ToolOutcomes : FlashAttemptDone(outcome)
    \/ Reset
    \/ \E outcome \in ToolOutcomes : ResetDone(outcome)
    \/ \E partition \in PartitionArgs : ErasePartition(partition)
    \/ \E output_file \in OutputFiles, kw \in DumpKwargs : DumpFlush(output_file, kw)
    \/ \E outcome \in ToolOutcomes : DumpFlushDone(outcome)

\* the session and its tool methods
Spec == Init /\ [][Next]_vars

\* the environments list_available_ports may run in; it is a class method
\* and needs no session, so the session is one without application data
InitPorts ==
    /\ pyVersion \in {2, 3}
    /\ InitSession({<<>>}, {<<>>})
    /\ ports \in PortLists
    /\ espport \in EspportValues
    /\ platform \in Platforms
    /\ result = NotCalled

NextPorts == CallListAvailablePorts

\* list_available_ports over every modelled environment
SpecPorts == InitPorts /\ [][NextPorts]_vars

-----------------------------------------------------------------------------
(* Properties of the tool methods, under Spec *)

Returned_(method) == pc = "idle" /\ lastCall = method

AllFailed(inv) == \A i \in 1..Len(inv) : inv[i].outcome = "CalledProcessError"

\* C1: whenever a tool method (start_app, reset, erase_partition,
\* dump_flush) has returned to its caller, normally or with an exception,
\* the session's serial port is open again.
C1_ReopenedOnEveryExit == (pc = "idle" /\ lastCall # "none") => portOpen

\* C2: when the flasher exited non-zero at every rate of retry_baud_rates,
\* start_app raises the failure of the last rate, 115200.
C2_ExhaustionRaisesLastFailure ==
    (/\ Returned_("start_app")
     /\ Len(invocations) = Len(retry_baud_rates)
     /\ AllFailed(invocations))
    => raised = Exc("CalledProcessError", retry_baud_rates[Len(retry_baud_rates)])

\* C3: the i-th flasher invocation of a start_app call runs at the i-th rate
\* of retry_baud_rates (so in list order, each rate at most once), every
\* invocation before the latest one failed, and once an invocation succeeded
\* start_app has returned without an exception and invoked nothing more.
C3_RetryInOrderUntilSuccess ==
    lastCall = "start_app" =>
        /\ Len(invocations) <= Len(retry_baud_rates)
        /\ \A i \in 1..Len(invocations) :
              /\ invocations[i].args[6] = retry_baud_rates[i]
              /\ i < Len(invocations) =>
                    invocations[i].outcome = "CalledProcessError"
              /\ invocations[i].outcome = "ok" =>
                    /\ i = Len(invocations)
                    /\ pc = "idle"
                    /\ raised = NoException

\* the first rate failed, the second succeeded, start_app returned normally
C3_Witness ==
    /\ Returned_("start_app")
    /\ Len(invocations) = 2
    /\ invocations[1].outcome = "CalledProcessError"
    /\ invocations[2].outcome = "ok"
    /\ raised = NoException

HasPartition == "partition" \in DOMAIN kwargs
HasRange == "address" \in DOMAIN kwargs /\ "size" \in DOMAIN kwargs

\* C8 as stated: dump_flush invokes read_flash only for a call with exactly
\* one of the two forms, partition or address with size, and every other
\* call raises IDFToolError without invoking the tool.
C8_ExactlyOneForm ==
    lastCall = "dump_flush" =>
        LET one == (HasPartition /\ ~HasRange) \/ (~HasPartition /\ HasRange)
        IN /\ invocations # <<>> => one
           /\ (pc = "idle" /\ ~one) =>
                 raised = Exc("IDFToolError", "none") /\ invocations = <<>>

\* C8 amended: dump_flush raises IDFToolError, without invoking the tool,
\* exactly when the call has no partition and lacks address or size.  A call
\* with a partition of the partition table invokes read_flash on that
\* partition's offset and size, whatever address and size it also passes; a
\* call without partition invokes read_flash only with both address and
\* size, and on them.
C8_PartitionPreferred ==
    lastCall = "dump_flush" =>
        /\ invocations # <<>> => HasPartition \/ HasRange
        /\ (~HasPartition /\ ~HasRange) =>
              /\ pc = "idle"
              /\ raised = Exc("IDFToolError", "none")
              /\ invocations = <<>>
        /\ raised.type = "IDFToolError" => ~HasPartition /\ ~HasRange
        /\ (HasPartition /\ kwargs["partition"] \in DOMAIN partition_table) =>
              /\ Len(invocations) = 1
              /\ invocations[1].args[12] =
                    partition_table[kwargs["partition"]].offset
              /\ invocations[1].args[13] =
                    partition_table[kwargs["partition"]].size
        /\ (HasPartition /\ kwargs["partition"] \notin DOMAIN partition_table) =>
              invocations = <<>> /\ raised = Exc("KeyError", "none")
        /\ (~HasPartition /\ HasRange) =>
              /\ Len(invocations) = 1
              /\ invocations[1].args[12] = kwargs["address"]
              /\ invocations[1].args[13] = kwargs["size"]

\* read_flash runs for a call that passed partition, address and size
C8_Witness ==
    /\ pc = "dump_flush"
    /\ HasPartition /\ HasRange
    /\ invocations[1].outcome = "running"
    /\ invocations[1].args[11] = "read_flash"

\* C9: while a tool invocation of the session is in progress (a flash
\* attempt at either rate, reset's run, dump_flush's read_flash) the
\* session's serial connection is closed.
C9_PortClosedDuringTool ==
    /\ pc # "idle" => ~portOpen
    /\ \A i \in 1..Len(invocations) :
          invocations[i].outcome = "running" => ~portOpen

\* the second attempt of start_app is in progress
C9_Witness ==
    /\ pc = "start_app"
    /\ baudIdx = 2
    /\ invocations[2].outcome = "running"
    /\ ~portOpen

\* what the flasher is given at the i-th rate
ExpectedFlashArgs(i, erase) ==
    <<"python", "esptool.py", "--port", "self.port", "--baud", retry_baud_rates[i]>>
    \o download_config
    \o (IF erase THEN <<partition_table["nvs"].offset, NvsTempName>> ELSE <<>>)

C10_State ==
    pc = "start_app" =>
        /\ \A i \in 1..Len(invocations) :
              invocations[i].args = ExpectedFlashArgs(i, erase_nvs)
        /\ erase_nvs =>
              /\ NvsTempName \in DOMAIN files
              /\ Len(files[NvsTempName]) = partition_table["nvs"].size
              /\ \A k \in 1..Len(files[NvsTempName]) : files[NvsTempName][k] = 255

\* C10: every flasher attempt of start_app is given the session's
\* download_config, followed when erase_nvs is set by exactly one pair of
\* the NVS offset and a file of NVS-size bytes 0xFF and by nothing
\* otherwise; and no step changes the session's download_config.
C10_NvsPairAndConfigKept ==
    []C10_State /\ [][download_config' = download_config]_vars

\* the second attempt of an erasing start_app with a non-empty NVS image
C10_Witness ==
    /\ pc = "start_app"
    /\ erase_nvs
    /\ baudIdx = 2
    /\ Len(files[NvsTempName]) >= 2
    /\ Len(invocations[2].args) = 6 + Len(download_config) + 2

-----------------------------------------------------------------------------
(* Properties of list_available_ports, under SpecPorts *)

TtyDot == <<"t", "t", "y", ".">>
CuDot == <<"c", "u", ".">>

HintGiven == espport # None /\ espport # <<>>

\* list without its elements equal to x, in order
Others(list, x) == SelectSeq(list, LAMBDA y : y # x)

Count(list, x) == Cardinality({i \in 1..Len(list) : list[i] = x})

IsPermutation(a, b) ==
    /\ Len(a) = Len(b)
    /\ \A i \in 1..Len(b) : Count(a, b[i]) = Count(b, b[i])

\* $ESPPORT with tty. replaced by cu.
Translated == Replace(espport, TtyDot, CuDot)

\* the macOS translation of the hint names an enumerated port
TranslationMatches ==
    /\ ~In(espport, ports)
    /\ Contains(espport, TtyDot)
    /\ In(Translated, ports)

HasPattern(x) ==
    \/ \E i \in 1..(Len(x) - 2) : SubSeq(x, i, i + 2) = <<"A", "M", "A">>
    \/ \E i \in 1..(Len(x) - 8) :
          SubSeq(x, i, i + 8) = <<"B", "l", "u", "e", "t", "o", "o", "t", "h">>

\* C4: with a non-empty $ESPPORT equal to an enumerated port, the result is
\* that port followed by the other enumerated ports in their order: a
\* permutation of the enumeration, nothing filtered.
C4_HintFirstPermutation ==
    (result.called /\ HintGiven /\ In(espport, ports)) =>
        /\ result.raised = NoException
        /\ result.value = <<espport>> \o Others(ports, espport)
        /\ IsPermutation(result.value, ports)

\* the hint is the last of three ports, one of which an invalid-pattern port
C4_Witness ==
    /\ result.called
    /\ Len(ports) = 3
    /\ espport = ports[3]
    /\ HasPattern(ports[1]) /\ ~HasPattern(ports[3])
    /\ result.value = <<ports[3], ports[1], ports[2]>>

\* C5: with $ESPPORT unset or empty, the result is the enumeration without
\* the ports whose name contains AMA or Bluetooth, the others in their order.
C5_FilterInvalidPorts ==
    (result.called /\ ~HintGiven) =>
        /\ result.raised = NoException
        /\ result.value = SelectSeq(ports, LAMBDA x : ~HasPattern(x))

\* a Bluetooth port between two valid ports is dropped
C5_Witness ==
    /\ result.called
    /\ espport = <<>>
    /\ Len(ports) = 3
    /\ ports[2] = TtyBluetooth
    /\ result.value = <<ports[1], ports[3]>>

\* C6: on darwin, when the hint is no enumerated port, contains tty. and
\* names an enumerated port once tty. is replaced by cu., the result is that
\* port followed by the other ports in their order; on another platform the
\* same hint leaves the enumeration as it is.
C6_MacTranslation ==
    (result.called /\ HintGiven /\ TranslationMatches) =>
        /\ result.raised = NoException
        /\ platform = "darwin" =>
              result.value = <<Translated>> \o Others(ports, Translated)
        /\ platform # "darwin" => result.value = ports

\* darwin, hint /dev/tty.SLAB, and /dev/cu.SLAB enumerated second
C6_Witness ==
    /\ result.called
    /\ platform = "darwin"
    /\ espport = TtySLAB
    /\ Len(ports) = 3
    /\ ports[2] = CuSLAB
    /\ ~In(TtySLAB, ports)
    /\ result.value = <<CuSLAB, ports[1], ports[3]>>

\* C7: with a non-empty hint that names no enumerated port, neither as it
\* is nor (on darwin) translated, the result is the enumeration unmodified.
C7_UnmatchedHintKeepsPorts ==
    (/\ result.called
     /\ HintGiven
     /\ ~In(espport, ports)
     /\ ~(platform = "darwin" /\ TranslationMatches))
    => result.raised = NoException /\ result.value = ports

====
